---------------------------- MODULE Spec2Model ----------------------------
(***************************************************************************)
(* A model of PDF_merge.py: merge_pdfs_with_toc and create_toc_page.       *)
(*                                                                         *)
(* One call of merge_pdfs_with_toc is followed statement by statement:     *)
(* every loop iteration of the function is one action, and the position in *)
(* each loop is the length of the list the loop appends to.  The pypdf and *)
(* reportlab objects are modelled by their structure: a page is the pair   *)
(* (document, page number), the writer is its page list, its outline and   *)
(* the annotations of its pages.                                           *)
(*                                                                         *)
(* Lengths are in thousandths of a PDF point, so that reportlab's A4       *)
(* (595.2756 x 841.8898 points) and the offsets of the code are integers.  *)
(***************************************************************************)
EXTENDS Integers, Sequences, FiniteSets

VARIABLES
    uploaded_files,      \* the argument: the ordered list of uploaded documents
    call,                \* how many calls of merge_pdfs_with_toc were started
    previous,            \* what the previous call left to its caller
    pc,                  \* position in the current call
    pdf_infos,           \* step 1
    entries,             \* step 2
    current_page,        \* step 2: the running cursor
    toc_pages,           \* step 3: the pages of toc_reader
    link_positions,      \* step 3: y of every TOC line
    toc_page_width,      \* step 3
    writer_pages,        \* step 4: writer.pages
    start_page_indices,  \* step 4-2
    writer_outline,      \* step 5: the writer's outline items
    writer_annotations,  \* step 6: the annotations added to the writer
    output,              \* step 7: the value returned
    raised               \* the exception that left the call

vars == <<uploaded_files, call, previous, pc, pdf_infos, entries, current_page,
          toc_pages, link_positions, toc_page_width, writer_pages,
          start_page_indices, writer_outline, writer_annotations, output, raised>>

---------------------------------------------------------------------------
(* Bounds of the model. *)

\* longest list of arbitrary documents
MaxDocs == 2
\* longest list of identical documents (long enough to leave the TOC page)
MaxUniform == 42
\* most pages of one document
MaxPages == 2
\* calls of merge_pdfs_with_toc on the same list
MaxCalls == 2

---------------------------------------------------------------------------
(* Constants of the program, in thousandths of a point. *)

\* reportlab's A4: width, height = A4
PageWidth == 595276
PageHeight == 841890
\* c.drawString(72, height - 72, ...): the header
HeaderX == 72000
HeaderDrop == 72000
\* y = height - 110
FirstLineDrop == 110000
\* c.drawString(80, y, line)
LineX == 80000
\* y -= 18
LinePitch == 18000
\* rect = (70, y - 2, toc_page_width - 70, y + 12)
LinkLeft == 70000
LinkBelow == 2000
LinkRightInset == 70000
LinkAbove == 12000

---------------------------------------------------------------------------
(* The inputs. *)

Names == {"a.pdf", "b.pdf"}

\* What reading a document does: "none" reads well, "open" fails in
\* PdfReader(uf) or len(reader.pages), "page" fails on the document's last
\* page when the pages are iterated.
Faults == {"none", "open", "page"}

Document == [name : Names, num_pages : 0..MaxPages, fault : Faults]

GeneralLists == UNION {[1..n -> Document] : n \in 0..MaxDocs}

UniformLists == {[i \in 1..n |-> d] : n \in 0..MaxUniform, d \in Document}

\* the worked example: A of 3 pages, B of 1 page, C of 2 pages
ExampleList ==
    <<[name |-> "A.pdf", num_pages |-> 3, fault |-> "none"],
      [name |-> "B.pdf", num_pages |-> 1, fault |-> "none"],
      [name |-> "C.pdf", num_pages |-> 2, fault |-> "none"]>>

Inputs == GeneralLists \cup UniformLists \cup {ExampleList}

NoOutput == [kind |-> "none"]
NoError == [kind |-> "none"]
NoDocument == 0

Min(a, b) == IF a <= b THEN a ELSE b

---------------------------------------------------------------------------
(* create_toc_page *)

\* line = f"{i}. {entry['title']}  ......  p. {entry['start_page']}"
TocLine(i, entry, y) ==
    [ordinal |-> i, title |-> entry.title, start_page |-> entry.start_page,
     x |-> LineX, y |-> y]

\* the loop of create_toc_page from entry i on, y being the current position
RECURSIVE TocLines(_, _, _)
TocLines(es, i, y) ==
    IF i > Len(es) THEN <<>>
    ELSE <<TocLine(i, es[i], y)>> \o TocLines(es, i + 1, y - LinePitch)

\* c.drawString(72, height - 72, ...); c.showPage(): the one page drawn
TocPage(lines) ==
    [doc |-> 0, page |-> 1,
     header |-> [x |-> HeaderX, y |-> PageHeight - HeaderDrop],
     lines |-> lines]

\* a renderer that ends the page only after drawing an entry
TocDocumentPagesIfLines(lines) == IF lines = <<>> THEN <<>> ELSE <<TocPage(lines)>>

\* c.showPage(); c.save(): the pages of the TOC document
TocDocumentPages(lines) == <<TocPage(lines)>>

\* return buffer.getvalue(), link_positions, width
create_toc_page(es) ==
    LET lines == TocLines(es, 1, PageHeight - FirstLineDrop)
    IN  [pages |-> TocDocumentPages(lines),
         link_positions |-> [i \in 1..Len(lines) |-> lines[i].y],
         width |-> PageWidth]

---------------------------------------------------------------------------
(* merge_pdfs_with_toc *)

Init ==
    /\ uploaded_files \in Inputs
    /\ call = 0
    /\ previous = NoOutput
    /\ pc = "start"
    /\ pdf_infos = <<>>
    /\ entries = <<>>
    /\ current_page = 0
    /\ toc_pages = <<>>
    /\ link_positions = <<>>
    /\ toc_page_width = 0
    /\ writer_pages = <<>>
    /\ start_page_indices = <<>>
    /\ writer_outline = <<>>
    /\ writer_annotations = <<>>
    /\ output = NoOutput
    /\ raised = NoError

\* What a call that ended left to its caller.
Result == IF pc = "returned" THEN output ELSE raised

\* The exception of a failed read: pypdf raises it and nothing in
\* merge_pdfs_with_toc catches it or adds the document to it.
ReadError == [kind |-> "PdfReadError", document |-> NoDocument]

\* def merge_pdfs_with_toc(uploaded_files): pdf_infos = []
\* The locals of an earlier call keep their last values until this call
\* assigns them.
Call ==
    /\ pc \in {"start", "returned", "raised"}
    /\ call < MaxCalls
    /\ call' = call + 1
    /\ previous' = IF pc = "start" THEN NoOutput ELSE Result
    /\ pdf_infos' = <<>>
    /\ output' = NoOutput
    /\ raised' = NoError
    /\ pc' = "read"
    /\ UNCHANGED <<uploaded_files, entries, current_page, toc_pages,
                   link_positions, toc_page_width, writer_pages,
                   start_page_indices, writer_outline, writer_annotations>>

\* {"name": uf.name, "reader": reader, "num_pages": num_pages}
PdfInfo(i, uf) == [name |-> uf.name, reader |-> i, num_pages |-> uf.num_pages]

\* 1. for uf in uploaded_files: one iteration
ReadFile ==
    /\ pc = "read"
    /\ Len(pdf_infos) < Len(uploaded_files)
    /\ LET i == Len(pdf_infos) + 1
           uf == uploaded_files[i]
       IN  IF uf.fault = "open"
           THEN /\ raised' = ReadError
                /\ pc' = "raised"
                /\ UNCHANGED pdf_infos
           ELSE /\ pdf_infos' = Append(pdf_infos, PdfInfo(i, uf))
                /\ UNCHANGED <<raised, pc>>
    /\ UNCHANGED <<uploaded_files, call, previous, entries, current_page,
                   toc_pages, link_positions, toc_page_width, writer_pages,
                   start_page_indices, writer_outline, writer_annotations,
                   output>>

\* a cursor kept between the calls: set when first used, never reset
BeginPlanKeepCursor ==
    /\ pc = "read"
    /\ Len(pdf_infos) = Len(uploaded_files)
    /\ entries' = <<>>
    /\ current_page' = IF current_page = 0 THEN 1 ELSE current_page
    /\ pc' = "plan"
    /\ UNCHANGED <<uploaded_files, call, previous, pdf_infos, toc_pages,
                   link_positions, toc_page_width, writer_pages,
                   start_page_indices, writer_outline, writer_annotations,
                   output, raised>>

\* 2. entries = []; current_page = 1
BeginPlan ==
    /\ pc = "read"
    /\ Len(pdf_infos) = Len(uploaded_files)
    /\ entries' = <<>>
    /\ current_page' = 1
    /\ pc' = "plan"
    /\ UNCHANGED <<uploaded_files, call, previous, pdf_infos, toc_pages,
                   link_positions, toc_page_width, writer_pages,
                   start_page_indices, writer_outline, writer_annotations,
                   output, raised>>

\* the cursor itself taken as the start page
HumanStartPageIsCursor(cursor) == cursor

\* start_page = current_page + 1
HumanStartPage(cursor) == cursor + 1

\* 2. for info in pdf_infos: one iteration
PlanEntry ==
    /\ pc = "plan"
    /\ Len(entries) < Len(pdf_infos)
    /\ LET info == pdf_infos[Len(entries) + 1]
       IN  /\ entries' = Append(entries, [title |-> info.name,
                                          start_page |-> HumanStartPage(current_page)])
           /\ current_page' = current_page + info.num_pages
    /\ UNCHANGED <<uploaded_files, call, previous, pc, pdf_infos, toc_pages,
                   link_positions, toc_page_width, writer_pages,
                   start_page_indices, writer_outline, writer_annotations,
                   output, raised>>

\* 3. toc_pdf_bytes, link_positions, toc_page_width = create_toc_page(entries)
\*    toc_reader = PdfReader(BytesIO(toc_pdf_bytes))
CreateToc ==
    /\ pc = "plan"
    /\ Len(entries) = Len(pdf_infos)
    /\ LET toc == create_toc_page(entries)
       IN  /\ toc_pages' = toc.pages
           /\ link_positions' = toc.link_positions
           /\ toc_page_width' = toc.width
    /\ pc' = "toc"
    /\ UNCHANGED <<uploaded_files, call, previous, pdf_infos, entries,
                   current_page, writer_pages, start_page_indices,
                   writer_outline, writer_annotations, output, raised>>

\* 4. writer = PdfWriter()
\* 4-1. for page in toc_reader.pages: writer.add_page(page)
\* 4-2. start_page_indices = []
AddTocPages ==
    /\ pc = "toc"
    /\ writer_pages' = toc_pages
    /\ writer_outline' = <<>>
    /\ writer_annotations' = <<>>
    /\ start_page_indices' = <<>>
    /\ pc' = "assemble"
    /\ UNCHANGED <<uploaded_files, call, previous, pdf_infos, entries,
                   current_page, toc_pages, link_positions, toc_page_width,
                   output, raised>>

\* the start taken as a 1-based page number
StartIndexOneBased(pages) == Len(pages) + 1

\* start_index = len(writer.pages)
StartIndex(pages) == Len(pages)

\* an iteration that starts at the second page
ReaderPagesSkipFirst(reader, n) ==
    [k \in 1..(n - 1) |-> [doc |-> reader, page |-> k + 1]]

\* for page in info["reader"].pages: the pages of document `reader` that
\* are read, in order
ReaderPages(reader, n) == [k \in 1..n |-> [doc |-> reader, page |-> k]]

\* 4-2. for info in pdf_infos: one iteration.  A damaged last page raises
\* after the pages before it were added.
AppendDocument ==
    /\ pc = "assemble"
    /\ Len(start_page_indices) < Len(pdf_infos)
    /\ LET i == Len(start_page_indices) + 1
           info == pdf_infos[i]
           damaged == uploaded_files[info.reader].fault = "page" /\ info.num_pages > 0
           read == IF damaged THEN info.num_pages - 1 ELSE info.num_pages
       IN  /\ start_page_indices' = Append(start_page_indices, StartIndex(writer_pages))
           /\ writer_pages' = writer_pages \o ReaderPages(info.reader, read)
           /\ IF damaged
              THEN raised' = ReadError /\ pc' = "raised"
              ELSE UNCHANGED <<raised, pc>>
    /\ UNCHANGED <<uploaded_files, call, previous, pdf_infos, entries,
                   current_page, toc_pages, link_positions, toc_page_width,
                   writer_outline, writer_annotations, output>>

\* the bookmark given the human page number instead of the index
OutlineItemHumanPage(info, page_index) ==
    [title |-> info.name, page |-> page_index + 1, parent |-> 0]

\* writer.add_outline_item(info["name"], page_index): no parent is given
OutlineItem(info, page_index) ==
    [title |-> info.name, page |-> page_index, parent |-> 0]

\* 5. for info, page_index in zip(pdf_infos, start_page_indices): one iteration
AddOutlineItem ==
    /\ pc = "assemble"
    /\ Len(start_page_indices) = Len(pdf_infos)
    /\ Len(writer_outline) < Min(Len(pdf_infos), Len(start_page_indices))
    /\ LET i == Len(writer_outline) + 1
       IN  writer_outline' = Append(writer_outline,
                                    OutlineItem(pdf_infos[i], start_page_indices[i]))
    /\ UNCHANGED <<uploaded_files, call, previous, pc, pdf_infos, entries,
                   current_page, toc_pages, link_positions, toc_page_width,
                   writer_pages, start_page_indices, writer_annotations,
                   output, raised>>

\* rect = (70, y - 2, toc_page_width - 70, y + 12)
LinkRect(y, width) ==
    [xLL |-> LinkLeft, yLL |-> y - LinkBelow,
     xUR |-> width - LinkRightInset, yUR |-> y + LinkAbove]

\* AnnotationBuilder.link(rect=rect, target_page_index=target_page_index)
\* writer.add_annotation(page_number=0, annotation=annotation)
LinkAnnotation(y, width, target_page_index) ==
    [page_number |-> 0, rect |-> LinkRect(y, width), target |-> target_page_index]

\* 6. for i, (entry, y) in enumerate(zip(entries, link_positions)): one iteration
AddLink ==
    /\ pc = "assemble"
    /\ Len(start_page_indices) = Len(pdf_infos)
    /\ Len(writer_outline) = Min(Len(pdf_infos), Len(start_page_indices))
    /\ Len(writer_annotations) < Min(Len(entries), Len(link_positions))
    /\ LET i == Len(writer_annotations) + 1
       IN  writer_annotations' =
               Append(writer_annotations,
                      LinkAnnotation(link_positions[i], toc_page_width,
                                     start_page_indices[i]))
    /\ UNCHANGED <<uploaded_files, call, previous, pc, pdf_infos, entries,
                   current_page, toc_pages, link_positions, toc_page_width,
                   writer_pages, start_page_indices, writer_outline,
                   output, raised>>

\* writer.write(output_buffer): the document the bytes hold
Serialized(pages, outline, annotations) ==
    [kind |-> "pdf", pages |-> pages, outline |-> outline,
     annotations |-> annotations]

\* 7. writer.write(output_buffer); return output_buffer.getvalue()
Write ==
    /\ pc = "assemble"
    /\ Len(start_page_indices) = Len(pdf_infos)
    /\ Len(writer_outline) = Min(Len(pdf_infos), Len(start_page_indices))
    /\ Len(writer_annotations) = Min(Len(entries), Len(link_positions))
    /\ output' = Serialized(writer_pages, writer_outline, writer_annotations)
    /\ pc' = "returned"
    /\ UNCHANGED <<uploaded_files, call, previous, pdf_infos, entries,
                   current_page, toc_pages, link_positions, toc_page_width,
                   writer_pages, start_page_indices, writer_outline,
                   writer_annotations, raised>>

Next ==
    \/ Call
    \/ ReadFile
    \/ BeginPlan
    \/ PlanEntry
    \/ CreateToc
    \/ AddTocPages
    \/ AppendDocument
    \/ AddOutlineItem
    \/ AddLink
    \/ Write

Spec == Init /\ [][Next]_vars

---------------------------------------------------------------------------
(* What the properties speak of. *)

\* the number of pages document i really has
pageCount(i) == uploaded_files[i].num_pages

\* the sum of the page counts of the first n documents
RECURSIVE PagesBefore(_)
PagesBefore(n) == IF n = 0 THEN 0 ELSE PagesBefore(n - 1) + pageCount(n)

\* the page at 0-based index j of a page list
PageAt(pages, j) == pages[j + 1]

\* entries, start_page_indices and the writer are those of the current call
Assembling == pc \in {"assemble", "returned"}

AllPositive == \A i \in 1..Len(uploaded_files) : pageCount(i) >= 1

\* the first document whose reading fails, 0 when the call reads them all
RECURSIVE FirstFault(_, _)
FirstFault(kind, i) ==
    IF i > Len(uploaded_files) THEN 0
    ELSE IF uploaded_files[i].fault = kind
            /\ (kind = "page" => pageCount(i) > 0)
         THEN i
         ELSE FirstFault(kind, i + 1)

Offender ==
    IF FirstFault("open", 1) # 0 THEN FirstFault("open", 1)
    ELSE FirstFault("page", 1)

---------------------------------------------------------------------------
(* C1 *)

\* C1: for a non-empty list of documents with positive page counts, the
\* human start page written into TOC entry i is start_page_indices[i] + 1,
\* and start_page_indices[i] is where document i's first page was appended.
C1_HumanStartIsIndexPlusOne ==
    (Assembling /\ uploaded_files # <<>> /\ AllPositive) =>
        \A i \in 1..Len(start_page_indices) :
            /\ entries[i].start_page = start_page_indices[i] + 1
            /\ PageAt(writer_pages, start_page_indices[i]) = [doc |-> i, page |-> 1]

C1_Witness ==
    /\ pc = "returned"
    /\ Len(uploaded_files) = 2
    /\ pageCount(1) = 2
    /\ pageCount(2) = 1
    /\ Len(start_page_indices) = 2
    /\ entries[2].start_page = 4

---------------------------------------------------------------------------
(* C2 *)

\* C2: the assembled pages are the TOC page at index 0 followed by every
\* document's pages in input order, contiguous and in their own order:
\* AssembledIndex[1] = 1, AssembledIndex[i+1] = AssembledIndex[i] +
\* pageCount[i], and document i fills exactly the indices AssembledIndex[i]
\* .. AssembledIndex[i] + pageCount[i] - 1.
C2_PagesInInputOrder ==
    Assembling =>
        LET n == Len(start_page_indices)
        IN  /\ Len(writer_pages) >= 1
            /\ PageAt(writer_pages, 0).doc = 0
            /\ n >= 1 => start_page_indices[1] = 1
            /\ \A i \in 1..(n - 1) :
                   start_page_indices[i + 1] = start_page_indices[i] + pageCount(i)
            /\ \A i \in 1..n : \A k \in 1..pageCount(i) :
                   /\ start_page_indices[i] + k - 1 < Len(writer_pages)
                   /\ PageAt(writer_pages, start_page_indices[i] + k - 1)
                          = [doc |-> i, page |-> k]
            /\ Len(writer_pages) =
                   IF n = 0 THEN 1 ELSE start_page_indices[n] + pageCount(n)

C2_Witness ==
    /\ pc = "returned"
    /\ Len(uploaded_files) = 2
    /\ pageCount(1) = 2
    /\ pageCount(2) = 2
    /\ start_page_indices = <<1, 3>>
    /\ Len(writer_pages) = 5

---------------------------------------------------------------------------
(* C3 *)

\* C3: whenever merge_pdfs_with_toc returns, the output has 1 + the sum of
\* the page counts of the input documents pages.
C3_TotalPageCount ==
    pc = "returned" =>
        Len(output.pages) = 1 + PagesBefore(Len(uploaded_files))

C3_Witness ==
    /\ pc = "returned"
    /\ uploaded_files = ExampleList
    /\ [i \in 1..3 |-> entries[i].start_page] = <<2, 5, 6>>
    /\ start_page_indices = <<1, 4, 5>>
    /\ Len(output.pages) = 7

---------------------------------------------------------------------------
(* C4 *)

\* C4: the outline of the output is flat and has one bookmark per document,
\* in input order; bookmark i is labelled with document i's name and targets
\* AssembledIndex[i], the index of document i's first page; also when two
\* documents share a name.
C4_OneBookmarkPerDocument ==
    pc = "returned" =>
        /\ Len(output.outline) = Len(uploaded_files)
        /\ \A i \in 1..Len(uploaded_files) :
               /\ output.outline[i].title = uploaded_files[i].name
               /\ output.outline[i].parent = 0
               /\ output.outline[i].page = start_page_indices[i]
               /\ output.outline[i].page = 1 + PagesBefore(i - 1)
               /\ pageCount(i) > 0 =>
                      PageAt(output.pages, output.outline[i].page)
                          = [doc |-> i, page |-> 1]

C4_Witness ==
    /\ pc = "returned"
    /\ Len(uploaded_files) = 2
    /\ uploaded_files[1].name = uploaded_files[2].name
    /\ pageCount(1) = 2
    /\ Len(output.outline) = 2
    /\ output.outline[2].page = 3

---------------------------------------------------------------------------
(* C5 *)

\* where create_toc_page draws entry i (counted from 0): height - 110 - 18 i
EntryY(i) == PageHeight - FirstLineDrop - LinePitch * i

\* C5: for every document list and every entry i, the link rectangle
\* (70, y_i - 2, pageWidth - 70, y_i + 12) attached to page 0 lies within the
\* TOC page, y_i = pageHeight - 110 - 18 i being the position create_toc_page
\* recorded, and the link targets AssembledIndex[i].
C5_LinksWithinTocPage ==
    Assembling =>
        \A i \in 1..Len(writer_annotations) :
            LET a == writer_annotations[i]
                y == EntryY(i - 1)
            IN  /\ link_positions[i] = y
                /\ a.page_number = 0
                /\ a.rect = [xLL |-> LinkLeft, yLL |-> y - LinkBelow,
                             xUR |-> PageWidth - LinkRightInset,
                             yUR |-> y + LinkAbove]
                /\ 0 <= a.rect.xLL /\ a.rect.xLL < a.rect.xUR
                /\ a.rect.xUR <= PageWidth
                /\ 0 <= a.rect.yLL /\ a.rect.yLL < a.rect.yUR
                /\ a.rect.yUR <= PageHeight
                /\ a.target = start_page_indices[i]

---------------------------------------------------------------------------
(* C6 *)

\* the entries are more than (pageHeight - topMargin - bottomMargin) /
\* linePitch, whatever bottom margin >= 0 is kept
ExceedsTocCapacity == Len(uploaded_files) * LinePitch > PageHeight - FirstLineDrop

\* C6: when the documents are more than the one TOC page holds, the merge
\* ends in an EntryOverflow error and returns no output.
C6_OverflowIsRejected ==
    ExceedsTocCapacity =>
        /\ pc # "returned"
        /\ output = NoOutput
        /\ pc = "raised" /\ Offender = 0 => raised.kind = "EntryOverflow"

---------------------------------------------------------------------------
(* C7 *)

\* C7: when a document has 0 pages the merge is rejected and produces no
\* output; it never completes with two TOC entries showing the same human
\* start page or two bookmarks targeting the same page index.
C7_ZeroPageDocumentIsRejected ==
    pc = "returned" =>
        /\ \A i \in 1..Len(uploaded_files) : pageCount(i) > 0
        /\ \A i, j \in 1..Len(output.outline) :
               i # j => /\ entries[i].start_page # entries[j].start_page
                        /\ output.outline[i].page # output.outline[j].page

---------------------------------------------------------------------------
(* C8 *)

\* A call returns a fully assembled document or nothing: a call that raised
\* left no output, and a call that returned read every document.
AllOrNothing ==
    /\ pc = "raised" => output = NoOutput /\ Offender # 0
    /\ pc = "returned" =>
           /\ Offender = 0
           /\ output.kind = "pdf"
           /\ Len(output.pages) = 1 + PagesBefore(Len(uploaded_files))
           /\ Len(output.outline) = Len(uploaded_files)
           /\ Len(output.annotations) = Len(uploaded_files)
    /\ output # NoOutput => pc = "returned"

\* C8: if reading a source document fails, in step 1 or in step 4-2, the
\* merge aborts with an error identifying the offending document and no
\* output bytes are returned.
C8_ReadFailureNamesTheDocument ==
    /\ Offender # 0 => pc # "returned" /\ output = NoOutput
    /\ pc = "raised" => raised.document = Offender

---------------------------------------------------------------------------
(* C9 *)

\* C9: merging an empty document list succeeds, and its output has exactly
\* one page, the TOC page with its header and no entry line, no bookmark and
\* no link annotation.
C9_EmptyListGivesTocOnly ==
    uploaded_files = <<>> =>
        /\ pc # "raised"
        /\ pc = "returned" =>
               /\ Len(output.pages) = 1
               /\ output.pages[1].doc = 0
               /\ output.pages[1].header = [x |-> HeaderX, y |-> PageHeight - HeaderDrop]
               /\ output.pages[1].lines = <<>>
               /\ output.outline = <<>>
               /\ output.annotations = <<>>

C9_Witness ==
    /\ uploaded_files = <<>>
    /\ pc = "returned"
    /\ output.kind = "pdf"

---------------------------------------------------------------------------
(* C10 *)

BookmarkTargets(out) == [i \in 1..Len(out.outline) |-> out.outline[i].page]

LinkTargets(out) == [i \in 1..Len(out.annotations) |-> out.annotations[i].target]

TocText(out) ==
    [i \in 1..Len(out.pages[1].lines) |->
        <<out.pages[1].lines[i].ordinal, out.pages[1].lines[i].title,
          out.pages[1].lines[i].start_page>>]

\* C10: a later call of merge_pdfs_with_toc on the same ordered document list
\* gives an output with the same page count, the same bookmark targets, the
\* same TOC lines (ordinal, title, human start page) and the same link
\* targets as the call before it; a call keeps nothing of the call before.
C10_SameListSameOutput ==
    /\ call >= 2 /\ pc = "returned" =>
           /\ previous.kind = "pdf"
           /\ Len(output.pages) = Len(previous.pages)
           /\ BookmarkTargets(output) = BookmarkTargets(previous)
           /\ TocText(output) = TocText(previous)
           /\ LinkTargets(output) = LinkTargets(previous)
    /\ call >= 2 /\ pc = "raised" => previous = raised

C10_Witness ==
    /\ call = 2
    /\ pc = "returned"
    /\ Len(uploaded_files) = 2
    /\ pageCount(1) = 2
    /\ previous.kind = "pdf"
    /\ BookmarkTargets(output) = <<1, 3>>

====
